---- MODULE Spec2Model ----
(***************************************************************************)
(* The Whisper transcription service of src/main.py: the lifespan of the   *)
(* engine handle (app.whisper_pipeline) and the POST /transcribe handler,  *)
(* one statement per step, run by a single cooperative event loop.         *)
(*                                                                         *)
(* Strings are sequences of one-character strings.  A staged file is an    *)
(* entry of fs, from its path to its content and to the request that       *)
(* created it (owner: the identity of the file, which the path alone does  *)
(* not give once a name is used again).                                    *)
(***************************************************************************)
EXTENDS Integers, Sequences, FiniteSets, TLC

\* ------------------------------------------------------------------ bounds
NumRequests == 2
MaxLangLen == 3
MaxNameLen == 3

Requests == 1..NumRequests

\* upload contents: two, so that one request's bytes differ from another's;
\* 0 is the content of a file nothing was written to
Data == {1, 2}

VARIABLES
  phase,       \* the process: "boot", "serving", "stopped", "dead"
  pipeline,    \* app.whisper_pipeline
  loads,       \* calls of pipeline(...) made so far
  running,     \* the handler the event loop is executing, 0 when it is free
  pc,          \* where each request is
  req,         \* the multipart form each request carries
  extra_args,  \* the handler's local extra_args
  tmp,         \* tmp.name, <<>> before NamedTemporaryFile returned
  buf,         \* the bytes file.read() returned, 0 before
  fs,          \* the temporary directory: path -> [owner, content]
  call,        \* what the engine was called with
  outputs,     \* the handler's local outputs
  exc,         \* the exception raised in the handler, if any
  resp         \* the response the request got

vars == <<phase, pipeline, loads, running, pc, req, extra_args, tmp, buf, fs,
          call, outputs, exc, resp>>

\* ------------------------------------------------------------------ values
None == "None"
Engine == "pipeline"

NoReq == [unset |-> TRUE]
NoArgs == [unset |-> TRUE]
NoCall == [unset |-> TRUE]
NoOutputs == [unset |-> TRUE]
NoResp == [status |-> 0, body |-> [unset |-> TRUE]]
NoExc == [kind |-> "none", msg |-> ""]
NoPath == <<>>
NoFiles == [p \in {} |-> 0]

Auto == <<"a", "u", "t", "o">>
DefaultLanguage == <<"E", "N">>

UpperLetters == <<"A","B","C","D","E","F","G","H","I","J","K","L","M",
                  "N","O","P","Q","R","S","T","U","V","W","X","Y","Z">>
LowerLetters == <<"a","b","c","d","e","f","g","h","i","j","k","l","m",
                  "n","o","p","q","r","s","t","u","v","w","x","y","z">>

Range(s) == {s[i] : i \in DOMAIN s}

IsLetter(ch) == ch \in Range(UpperLetters) \cup Range(LowerLetters)

\* str.lower() on one character, and on a string
LowerChar(ch) ==
  IF ch \in Range(UpperLetters)
    THEN LowerLetters[CHOOSE i \in DOMAIN UpperLetters : UpperLetters[i] = ch]
    ELSE ch

LowerMutant(s) == s

Lower(s) == [i \in DOMAIN s |-> LowerChar(s[i])]

\* ------------------------------------------------------------------ inputs
StringsOver(chars, lo, hi) == UNION {[1..k -> chars] : k \in lo..hi}

NoFile == [given |-> FALSE, filename |-> <<>>, data |-> 0]
Omitted == [given |-> FALSE, value |-> <<>>]

Filenames == StringsOver({"a", "."}, 0, MaxNameLen)

\* a language field sent empty is taken as omitted, and gets the default
LanguageValues ==
  StringsOver({"e", "N", "1"}, 1, MaxLangLen) \cup {Auto, <<"A", "U", "T", "O">>}

\* the forms of the single-request specification: every filename and
\* language value within the bounds, the file and the language given or not
RichInputs ==
  [file : {NoFile} \cup [given : {TRUE}, filename : Filenames, data : {1}],
   language : {Omitted} \cup [given : {TRUE}, value : LanguageValues],
   timestamp : BOOLEAN]

\* the forms of the concurrent specification: one filename with every
\* upload content and the default language, and one malformed form
SmallInputs ==
  [file : [given : {TRUE}, filename : {<<"a", ".", "a">>}, data : Data],
   language : {Omitted},
   timestamp : {TRUE}]
  \cup {[file |-> [given |-> TRUE, filename |-> <<"a", ".", "a">>, data |-> 1],
         language |-> [given |-> TRUE, value |-> <<"e", "1">>],
         timestamp |-> TRUE]}

\* ------------------------------------------------------- request validator
\* language: str = Form("EN", ...): the default when the field is omitted
Language(q) == IF q.language.given THEN q.language.value ELSE DefaultLanguage

PatternMutant(s) == Len(s) >= 2 /\ IsLetter(s[1]) /\ IsLetter(s[2])

\* pattern="^(?:[A-Za-z]{2}|auto)$", matched against the whole value
MatchesPattern(s) ==
  \/ Len(s) = 2 /\ IsLetter(s[1]) /\ IsLetter(s[2])
  \/ s = Auto

\* file: UploadFile = File(...) is required
Valid(q) == q.file.given /\ MatchesPattern(Language(q))

\* ----------------------------------------------------------- option builder
BuildExtraArgs(language, timestamp) ==
  IF language # Auto
    THEN [chunk_length_s |-> 30, batch_size |-> 24,
          return_timestamps |-> timestamp,
          generate_kwargs |->
            [task |-> "transcribe",
             language |-> <<"<", "|">> \o Lower(language) \o <<"|", ">">>]]
    ELSE [chunk_length_s |-> 30, batch_size |-> 24,
          return_timestamps |-> timestamp]

\* ------------------------------------------------------------ staging store
HasDot(s) == \E i \in DOMAIN s : s[i] = "."
FirstDot(s) == CHOOSE i \in DOMAIN s : s[i] = "." /\ \A j \in 1..(i - 1) : s[j] # "."

\* filename.split('.')
RECURSIVE Split(_)
Split(s) ==
  IF HasDot(s)
    THEN <<SubSeq(s, 1, FirstDot(s) - 1)>> \o Split(SubSeq(s, FirstDot(s) + 1, Len(s)))
    ELSE <<s>>

SegmentMutant(s) == Split(s)[1]

\* filename.split('.')[-1]
LastSegment(s) == Split(s)[Len(Split(s))]

\* suffix=f".{file.filename.split('.')[-1]}"
Suffix(filename) == <<".">> \o LastSegment(filename)

\* the names tempfile draws from: a directory, a prefix and a random part
RandomParts == SubSeq(<<"1", "2", "3", "4", "5", "6", "7", "8", "9">>, 1, NumRequests)
TmpPath(i, suffix) == <<"/", "t", RandomParts[i]>> \o suffix

CanCreateMutant(files, p) == TRUE

\* tempfile opens with O_EXCL and draws another name when the path exists
CanCreate(files, p) == p \notin DOMAIN files

UnlinkMutant(files, p) == files

\* the close of a NamedTemporaryFile (delete=True) unlinks its path
Unlink(files, p) == [q \in DOMAIN files \ {p} |-> files[q]]

\* --------------------------------------------------------------- the engine
\* the recognition engine is opaque: its result is some function of the
\* audio it reads and of the options, with timing data when asked for
EngineResult(content, args) ==
  IF args.return_timestamps
    THEN [text |-> content, chunks |-> content]
    ELSE [text |-> content]

\* ------------------------------------------------------------ the responses
ErrorResponseMutant(e) ==
  [status |-> 500, body |-> [error |-> e.msg, traceback |-> e.kind]]

\* JSONResponse(content={"error": str(e)}, status_code=500)
ErrorResponse(e) == [status |-> 500, body |-> [error |-> e.msg]]

SuccessResponseMutant(o) == [status |-> 200, body |-> o @@ [transcription |-> o.text]]

\* return outputs
SuccessResponse(o) == [status |-> 200, body |-> o]

\* FastAPI's answer to a form that fails validation
ValidationResponse == [status |-> 422, body |-> [detail |-> "validation"]]

\* except Exception: every exception but a BaseException such as the
\* asyncio.CancelledError thrown into a cancelled task
Catches(e) == e.kind = "Exception"

Raised(msg) == [kind |-> "Exception", msg |-> msg]
CancelledError == [kind |-> "BaseException", msg |-> "cancelled"]

\* ------------------------------------------------------------ the scheduler
AwaitPointsMutant == {"read", "invoke"}

\* the handler's only await: await file.read()
AwaitPoints == {"read"}

Terminal == {"rejected", "responded", "failed", "cancelled"}

\* ---------------------------------------------------------------- lifespan
LoadedPipelineMutant == None

\* app.whisper_pipeline = pipeline(...)
LoadedPipeline == Engine

Init ==
  /\ phase = "boot"
  /\ pipeline = None
  /\ loads = 0
  /\ running = 0
  /\ pc = [r \in Requests |-> "idle"]
  /\ req = [r \in Requests |-> NoReq]
  /\ extra_args = [r \in Requests |-> NoArgs]
  /\ tmp = [r \in Requests |-> NoPath]
  /\ buf = [r \in Requests |-> 0]
  /\ fs = NoFiles
  /\ call = [r \in Requests |-> NoCall]
  /\ outputs = [r \in Requests |-> NoOutputs]
  /\ exc = [r \in Requests |-> NoExc]
  /\ resp = [r \in Requests |-> NoResp]

\* lifespan, up to its yield: the engine is loaded, then requests are served
Startup ==
  /\ phase = "boot"
  /\ pipeline' = LoadedPipeline
  /\ loads' = loads + 1
  /\ phase' = "serving"
  /\ UNCHANGED <<running, pc, req, extra_args, tmp, buf, fs, call, outputs, exc, resp>>

\* pipeline(...) raises: the process never serves
StartupFails ==
  /\ phase = "boot"
  /\ loads' = loads + 1
  /\ phase' = "dead"
  /\ UNCHANGED <<pipeline, running, pc, req, extra_args, tmp, buf, fs, call, outputs, exc, resp>>

\* lifespan, after its yield.  The server sends the lifespan shutdown once
\* no request is in flight any more.
Shutdown ==
  /\ phase = "serving"
  /\ running = 0
  /\ \A r \in Requests : pc[r] \in Terminal \cup {"idle"}
  /\ pipeline' = None
  /\ phase' = "stopped"
  /\ UNCHANGED <<loads, running, pc, req, extra_args, tmp, buf, fs, call, outputs, exc, resp>>

\* ------------------------------------------------------- POST /transcribe
Goto(r, label) == pc' = [pc EXCEPT ![r] = label]
Raise(r, e) == exc' = [exc EXCEPT ![r] = e]

\* a request arrives with its form
Receive(r, inputs) ==
  /\ phase = "serving"
  /\ running = 0
  /\ pc[r] = "idle"
  /\ \E q \in inputs : req' = [req EXCEPT ![r] = q]
  /\ Goto(r, "received")
  /\ UNCHANGED <<phase, pipeline, loads, running, extra_args, tmp, buf, fs, call, outputs, exc, resp>>

\* the declared parameters are checked before the handler is called
Validate(r) ==
  /\ running = 0
  /\ pc[r] = "received"
  /\ IF Valid(req[r])
       THEN Goto(r, "validated") /\ UNCHANGED resp
       ELSE Goto(r, "rejected") /\ resp' = [resp EXCEPT ![r] = ValidationResponse]
  /\ UNCHANGED <<phase, pipeline, loads, running, req, extra_args, tmp, buf, fs, call, outputs, exc>>

\* the handler is called: extra_args is built
Start(r) ==
  /\ running = 0
  /\ pc[r] = "validated"
  /\ running' = r
  /\ extra_args' = [extra_args EXCEPT ![r] = BuildExtraArgs(Language(req[r]), req[r].timestamp)]
  /\ Goto(r, "stage")
  /\ UNCHANGED <<phase, pipeline, loads, req, tmp, buf, fs, call, outputs, exc, resp>>

\* with NamedTemporaryFile(suffix=...) as tmp: an empty file under a name
\* that is free, or an OSError and no file
Stage(r) ==
  /\ running = r
  /\ pc[r] = "stage"
  /\ \/ \E i \in DOMAIN RandomParts :
          LET p == TmpPath(i, Suffix(req[r].file.filename)) IN
            /\ CanCreate(fs, p)
            /\ tmp' = [tmp EXCEPT ![r] = p]
            /\ fs' = (p :> [owner |-> r, content |-> 0]) @@ fs
            /\ Goto(r, "read")
            /\ UNCHANGED exc
     \/ /\ Raise(r, Raised("OSError: create"))
        /\ Goto(r, "except")
        /\ UNCHANGED <<tmp, fs>>
  /\ UNCHANGED <<phase, pipeline, loads, running, req, extra_args, buf, call, outputs, resp>>

\* at an await the handler may give the event loop away ...
Yield(r) ==
  /\ running = r
  /\ pc[r] \in AwaitPoints
  /\ running' = 0
  /\ UNCHANGED <<phase, pipeline, loads, pc, req, extra_args, tmp, buf, fs, call, outputs, exc, resp>>

\* ... and is given it back when the loop is free
Resume(r) ==
  /\ running = 0
  /\ pc[r] \in AwaitPoints
  /\ running' = r
  /\ UNCHANGED <<phase, pipeline, loads, pc, req, extra_args, tmp, buf, fs, call, outputs, exc, resp>>

\* ... or its task is cancelled: CancelledError is thrown into the await
Cancel(r) ==
  /\ running = 0
  /\ pc[r] \in AwaitPoints
  /\ running' = r
  /\ Raise(r, CancelledError)
  /\ Goto(r, "exit")
  /\ UNCHANGED <<phase, pipeline, loads, req, extra_args, tmp, buf, fs, call, outputs, resp>>

\* await file.read() returns the upload's bytes, or raises
Read(r) ==
  /\ running = r
  /\ pc[r] = "read"
  /\ \/ /\ buf' = [buf EXCEPT ![r] = req[r].file.data]
        /\ Goto(r, "write")
        /\ UNCHANGED exc
     \/ /\ Raise(r, Raised("OSError: read"))
        /\ Goto(r, "exit")
        /\ UNCHANGED buf
  /\ UNCHANGED <<phase, pipeline, loads, running, req, extra_args, tmp, fs, call, outputs, resp>>

\* tmp.write(...); tmp.flush(); tmp.seek(0)
Write(r) ==
  /\ running = r
  /\ pc[r] = "write"
  /\ \/ /\ fs' = [fs EXCEPT ![tmp[r]].content = buf[r]]
        /\ Goto(r, "invoke")
        /\ UNCHANGED exc
     \/ /\ Raise(r, Raised("OSError: write"))
        /\ Goto(r, "exit")
        /\ UNCHANGED fs
  /\ UNCHANGED <<phase, pipeline, loads, running, req, extra_args, tmp, buf, call, outputs, resp>>

\* app.whisper_pipeline(tmp.name, **extra_args): calling None is a TypeError,
\* and the engine raises on a path that names no file
Invoke(r) ==
  /\ running = r
  /\ pc[r] = "invoke"
  /\ IF pipeline = None
       THEN Raise(r, Raised("TypeError")) /\ Goto(r, "exit") /\ UNCHANGED call
       ELSE IF tmp[r] \notin DOMAIN fs
         THEN Raise(r, Raised("FileNotFoundError")) /\ Goto(r, "exit") /\ UNCHANGED call
         ELSE /\ call' = [call EXCEPT ![r] =
                     [path |-> tmp[r], args |-> extra_args[r],
                      owner |-> fs[tmp[r]].owner, content |-> fs[tmp[r]].content]]
              /\ Goto(r, "engine")
              /\ UNCHANGED exc
  /\ UNCHANGED <<phase, pipeline, loads, running, req, extra_args, tmp, buf, fs, outputs, resp>>

\* the engine returns its result, or raises
EngineReturns(r) ==
  /\ running = r
  /\ pc[r] = "engine"
  /\ \/ /\ outputs' = [outputs EXCEPT ![r] = EngineResult(call[r].content, call[r].args)]
        /\ Goto(r, "exit")
        /\ UNCHANGED exc
     \/ /\ Raise(r, Raised("engine error"))
        /\ Goto(r, "exit")
        /\ UNCHANGED outputs
  /\ UNCHANGED <<phase, pipeline, loads, running, req, extra_args, tmp, buf, fs, call, resp>>

\* the with block is left, normally or by an exception: the file is closed
\* and unlinked; an exception goes on to the except clause if that catches
\* it, and out of the handler if not
Exit(r) ==
  /\ running = r
  /\ pc[r] = "exit"
  /\ fs' = Unlink(fs, tmp[r])
  /\ IF exc[r] = NoExc
       THEN Goto(r, "return") /\ UNCHANGED running
       ELSE IF Catches(exc[r])
         THEN Goto(r, "except") /\ UNCHANGED running
         ELSE Goto(r, "cancelled") /\ running' = 0
  /\ UNCHANGED <<phase, pipeline, loads, req, extra_args, tmp, buf, call, outputs, exc, resp>>

\* return outputs
Return(r) ==
  /\ running = r
  /\ pc[r] = "return"
  /\ resp' = [resp EXCEPT ![r] = SuccessResponse(outputs[r])]
  /\ Goto(r, "responded")
  /\ running' = 0
  /\ UNCHANGED <<phase, pipeline, loads, req, extra_args, tmp, buf, fs, call, outputs, exc>>

\* except Exception as e: return JSONResponse(...)
Except(r) ==
  /\ running = r
  /\ pc[r] = "except"
  /\ resp' = [resp EXCEPT ![r] = ErrorResponse(exc[r])]
  /\ Goto(r, "failed")
  /\ running' = 0
  /\ UNCHANGED <<phase, pipeline, loads, req, extra_args, tmp, buf, fs, call, outputs, exc>>

Lifespan == Startup \/ StartupFails \/ Shutdown

Transcribe(r, inputs) ==
  \/ Receive(r, inputs)
  \/ Validate(r)
  \/ Start(r)
  \/ Stage(r)
  \/ Yield(r)
  \/ Resume(r)
  \/ Cancel(r)
  \/ Read(r)
  \/ Write(r)
  \/ Invoke(r)
  \/ EngineReturns(r)
  \/ Exit(r)
  \/ Return(r)
  \/ Except(r)

\* the service under concurrent requests
Next == Lifespan \/ \E r \in Requests : Transcribe(r, SmallInputs)
Spec == Init /\ [][Next]_vars

\* the service handling one request, over every form within the bounds
NextOne == Lifespan \/ Transcribe(1, RichInputs)
SpecOne == Init /\ [][NextOne]_vars

\* ================================================================== claims
InScope == {"read", "write", "invoke", "engine", "exit"}
FilesOf(r) == {p \in DOMAIN fs : fs[p].owner = r}

\* C1: once a request's handler is over (a response was returned, or the
\* cancellation left the handler), no staged file created by that request
\* exists, whichever way the handler was left.
C1_StagedFileRemoved ==
  \A r \in Requests : pc[r] \in Terminal => FilesOf(r) = {}

C1_Witness ==
  \E r \in Requests :
    pc[r] = "failed" /\ tmp[r] # NoPath /\ exc[r].msg = "engine error"

\* C2 as stated: whatever was raised inside the staging scope, the handler
\* ends with the response 500 {"error": <message>}.
C2_Original ==
  \A r \in Requests :
    (pc[r] \in Terminal /\ exc[r] # NoExc)
      => resp[r] = [status |-> 500, body |-> [error |-> exc[r].msg]]

\* C2 amended: an exception that is an instance of Exception ends in the
\* response 500 {"error": <message>} and nothing else in the body; an
\* exception that is only a BaseException (the CancelledError of a cancelled
\* task) leaves the handler and no response is made by it.
C2_CaughtExceptionIs500 ==
  \A r \in Requests :
    (pc[r] \in Terminal /\ exc[r] # NoExc)
      => IF exc[r].kind = "Exception"
           THEN /\ pc[r] = "failed"
                /\ resp[r] = [status |-> 500, body |-> [error |-> exc[r].msg]]
           ELSE pc[r] = "cancelled" /\ resp[r] = NoResp

C2_Witness ==
  \E r \in Requests :
    /\ pc[r] = "failed"
    /\ exc[r] = [kind |-> "Exception", msg |-> "engine error"]
    /\ call[r] # NoCall

\* C3: a request without a file, or whose language field is neither two
\* ASCII letters nor "auto", is answered with a client-error status and
\* never has a staged file created or the engine invoked.
C3_TwoLettersOrAuto(s) ==
  \/ Len(s) = 2 /\ \A i \in 1..2 : IsLetter(s[i])
  \/ s = <<"a", "u", "t", "o">>

C3_Malformed(q) ==
  \/ ~q.file.given
  \/ q.language.given /\ ~C3_TwoLettersOrAuto(q.language.value)

C4_Lowercase(s) ==
  [i \in DOMAIN s |->
     CASE s[i] = "E" -> "e"
       [] s[i] = "N" -> "n"
       [] OTHER -> s[i]]

C4_OptionsFromLanguageAndTimestamp ==
  \A r \in Requests :
    call[r] # NoCall =>
      LET a == call[r].args
          l == Language(req[r])
      IN /\ a.chunk_length_s = 30
         /\ a.batch_size = 24
         /\ a.return_timestamps = req[r].timestamp
         /\ IF l = <<"a", "u", "t", "o">>
              THEN DOMAIN a = {"chunk_length_s", "batch_size", "return_timestamps"}
              ELSE /\ DOMAIN a = {"chunk_length_s", "batch_size", "return_timestamps",
                                  "generate_kwargs"}
                   /\ a.generate_kwargs =
                        [task |-> "transcribe",
                         language |-> <<"<", "|">> \o C4_Lowercase(l) \o <<"|", ">">>]

C4_Witness ==
  \E r \in Requests :
    /\ call[r] # NoCall
    /\ req[r].language = [given |-> TRUE, value |-> <<"e", "N">>]
    /\ call[r].args.generate_kwargs.language = <<"<", "|", "e", "n", "|", ">">>

\* C5 as stated: every validated request ends either with 200 and the
\* engine's result as the body, or with 500 and the error payload.
C5_Success(r) ==
  /\ resp[r].status = 200
  /\ call[r] # NoCall
  /\ resp[r].body = EngineResult(call[r].content, call[r].args)
  /\ "error" \notin DOMAIN resp[r].body
  /\ exc[r] = NoExc

C5_Failure(r) ==
  /\ resp[r].status = 500
  /\ DOMAIN resp[r].body = {"error"}
  /\ exc[r] # NoExc

C5_Original ==
  \A r \in Requests :
    pc[r] \in Terminal \ {"rejected"} => (C5_Success(r) \/ C5_Failure(r))

\* C5 amended: every validated request whose handler is not cancelled ends
\* either with 200 and the engine's result, unmodified, as the body, or with
\* 500 and the error payload, never a mixture, and never 200 when something
\* was raised; a cancelled handler makes no response at all.
C5_SuccessOrFailure ==
  \A r \in Requests :
    /\ pc[r] \in {"responded", "failed"} => (C5_Success(r) \/ C5_Failure(r))
    /\ pc[r] = "responded" => C5_Success(r)
    /\ pc[r] = "failed" => C5_Failure(r)
    /\ pc[r] = "cancelled" => resp[r] = NoResp

C5_Witness ==
  \E r \in Requests :
    /\ pc[r] = "responded"
    /\ resp[r].status = 200
    /\ resp[r].body.text = req[r].file.data
    /\ "chunks" \in DOMAIN resp[r].body

\* C6 as stated: the path handed to the engine ends in "." followed by what
\* follows the last "." of the filename, which is nothing when the filename
\* has no ".".
C6_LastDot(s) == CHOOSE i \in DOMAIN s : s[i] = "." /\ \A j \in (i + 1)..Len(s) : s[j] # "."
C6_EndsWith(path, end) ==
  /\ Len(path) >= Len(end)
  /\ SubSeq(path, Len(path) - Len(end) + 1, Len(path)) = end

C6_Original ==
  \A r \in Requests :
    call[r] # NoCall =>
      LET name == req[r].file.filename IN
        C6_EndsWith(call[r].path,
                    <<".">> \o (IF HasDot(name)
                                  THEN SubSeq(name, C6_LastDot(name) + 1, Len(name))
                                  ELSE <<>>))

\* C6 amended: the path handed to the engine ends in "." followed by what
\* follows the last "." of the filename when it has one, and by the whole
\* filename when it has none.
C6_PathEndsInLastSegment ==
  \A r \in Requests :
    call[r] # NoCall =>
      LET name == req[r].file.filename IN
        C6_EndsWith(call[r].path,
                    <<".">> \o (IF HasDot(name)
                                  THEN SubSeq(name, C6_LastDot(name) + 1, Len(name))
                                  ELSE name))

C6_Witness ==
  \E r \in Requests :
    /\ call[r] # NoCall
    /\ req[r].file.filename = <<"a", "a">>
    /\ call[r].path = <<"/", "t", "1", ".", "a", "a">>

\* C7: requests whose staged files are live at the same time have different
\* paths; a request's path names the file it created, which holds nothing
\* but its own upload; the engine is called with that file; and no file of a
\* live request is deleted by another request.
C7_StagedFilesIndependent ==
  /\ \A r1, r2 \in Requests :
       (r1 # r2 /\ pc[r1] \in InScope /\ pc[r2] \in InScope) => tmp[r1] # tmp[r2]
  /\ \A r \in Requests :
       pc[r] \in InScope =>
         /\ tmp[r] \in DOMAIN fs
         /\ fs[tmp[r]].owner = r
         /\ fs[tmp[r]].content \in {0, req[r].file.data}
         /\ pc[r] \in {"invoke", "engine"} => fs[tmp[r]].content = req[r].file.data
  /\ \A r \in Requests :
       call[r] # NoCall =>
         /\ call[r].path = tmp[r]
         /\ call[r].owner = r
         /\ call[r].content = req[r].file.data

C7_Witness ==
  \E r1, r2 \in Requests :
    /\ pc[r1] = "engine"
    /\ pc[r2] = "read"
    /\ tmp[r2] \in DOMAIN fs
    /\ req[r1].file.data # req[r2].file.data

C9_State(p, t, o) ==
  CASE p = "idle" -> "NONE"
    [] p = "received" -> "RECEIVED"
    [] p = "rejected" -> "REJECTED"
    [] p = "responded" -> "RESPONDED"
    [] p = "failed" -> "FAILED"
    [] p = "cancelled" -> "CANCELLED"
    [] OTHER -> IF t = NoPath THEN "VALIDATED"
                ELSE IF o = NoOutputs THEN "STAGED" ELSE "INFERRED"

C9_Chain ==
  {<<"NONE", "RECEIVED">>, <<"RECEIVED", "VALIDATED">>, <<"VALIDATED", "STAGED">>,
   <<"STAGED", "INFERRED">>, <<"INFERRED", "RESPONDED">>,
   <<"VALIDATED", "FAILED">>, <<"STAGED", "FAILED">>, <<"INFERRED", "FAILED">>}

C9_Step(allowed) ==
  \A r \in Requests :
    LET s == C9_State(pc[r], tmp[r], outputs[r])
        t == C9_State(pc'[r], tmp'[r], outputs'[r])
    IN /\ s # t => <<s, t>> \in allowed
       /\ (s # t /\ t \in {"RESPONDED", "FAILED", "CANCELLED"} /\ tmp'[r] # NoPath)
            => \A p \in DOMAIN fs' : fs'[p].owner # r

\* C9 as stated: every change of a request's state follows RECEIVED ->
\* VALIDATED -> STAGED -> INFERRED -> RESPONDED, or enters FAILED from
\* VALIDATED, STAGED or INFERRED, and there is no other terminal.
C9_Original == [][C9_Step(C9_Chain)]_vars

\* C9 amended: a request that passes validation follows RECEIVED ->
\* VALIDATED -> STAGED -> INFERRED -> RESPONDED without skipping a state, or
\* enters FAILED from VALIDATED, STAGED or INFERRED; a request that fails
\* validation ends rejected straight from RECEIVED; a handler cancelled at
\* its upload read ends from STAGED without a response; no terminal is ever
\* left; and a request that entered STAGED has no staged file left when it
\* enters its terminal.
C9_StateMachine ==
  [][C9_Step(C9_Chain \cup {<<"RECEIVED", "REJECTED">>, <<"STAGED", "CANCELLED">>})]_vars

C9_Witness ==
  \E r \in Requests :
    /\ pc[r] = "responded"
    /\ tmp[r] # NoPath
    /\ outputs[r] # NoOutputs
    /\ tmp[r] \notin DOMAIN fs

\* C10: a handler gives the event loop away only at its upload read: while
\* another handler runs or the loop is free, a request is not yet in its
\* handler, suspended at the read, or over.  So from the read's completion
\* to the handler's return the loop is that request's, at most one request
\* is inside the engine call, and at most one staged file holds bytes.
C10_OneSuspensionPoint ==
  /\ \A r \in Requests :
       running # r => pc[r] \in {"idle", "received", "validated", "read"} \cup Terminal
  /\ \A r \in Requests :
       pc[r] \in {"write", "invoke", "engine", "exit", "return", "except"} => running = r
  /\ Cardinality({r \in Requests : pc[r] = "engine"}) <= 1
  /\ Cardinality({p \in DOMAIN fs : fs[p].content # 0}) <= 1

C10_Witness ==
  \E r1, r2 \in Requests :
    /\ r1 # r2
    /\ pc[r1] = "exit"
    /\ outputs[r1] # NoOutputs
    /\ fs[tmp[r1]].content # 0
    /\ pc[r2] = "read"
    /\ tmp[r2] \in DOMAIN fs

====
